---- MODULE Spec2Model ----
(***************************************************************************)
(* Model of the file store of WebFiles (src/main.go): the in-memory        *)
(* catalog webfiles.Files, its mutex webfiles.mu, the upload directory,    *)
(* the JSON index filedata.json, the session middleware, and the four      *)
(* handlers upload, list, download and delete run by concurrent request    *)
(* goroutines.                                                             *)
(*                                                                         *)
(* Strings are sequences of tokens: "/" and "." are the characters the     *)
(* code inspects, every other token is a run of characters holding         *)
(* neither of them.                                                        *)
(***************************************************************************)
EXTENDS Integers, Sequences, FiniteSets, TLC

\* ---------------------------------------------------------------- bounds
\* Most uploads accepted by uploadHandler in one behaviour; it also bounds
\* the catalog's length and the clock.
MaxUploads == 2
\* Most events of the environment in one behaviour: a file removed from
\* outside, a stop and start of the process, a disk call that fails after
\* the handler has changed state.
MaxEvents == 1
\* Number of request goroutines that can be in flight together.
NumProcs == 2
\* Most uploads accepted in the specifications that explore fewer
\* interleavings (SpecSeq, SpecNoFault).
MoreUploads == 3

Procs == 1..NumProcs

\* ------------------------------------------------------------- constants
uploadDir == <<".", "/", "uploads">>

\* Directories that exist: the working directory and, after os.MkdirAll,
\* the upload directory.
Dirs == { <<".">>, <<"uploads">> }

\* The byte stream of the k-th upload and its length (file.Size): every
\* upload carries bytes of its own, the first two of the same length.
BodyOf(k) == <<"b1", "b2", "b3", "b4", "b5">>[k]
SizeOf(b) ==
  IF b \in {"b1", "b2"} THEN 12 ELSE IF b = "b3" THEN 5
  ELSE IF b = "b4" THEN 7 ELSE 3

\* file.Filename values a client sends.
RawNames == { <<"a", ".", "t">>,
              <<".", ".", "/", "a", ".", "t">>,
              <<"/">> }

\* --------------------------------------------------------- string helpers
RECURSIVE LastIndex(_, _)
\* strings.LastIndex, 1-based; 0 stands for Go's -1
LastIndex(s, c) ==
  IF s = <<>> THEN 0
  ELSE IF s[Len(s)] = c THEN Len(s)
  ELSE LastIndex(SubSeq(s, 1, Len(s) - 1), c)

RECURSIVE StripTrailingSlashes(_)
StripTrailingSlashes(s) ==
  IF s # <<>> /\ s[Len(s)] = "/"
    THEN StripTrailingSlashes(SubSeq(s, 1, Len(s) - 1))
    ELSE s

\* filepath.Base
Base(path) ==
  IF path = <<>> THEN <<".">>
  ELSE LET p == StripTrailingSlashes(path)
           i == LastIndex(p, "/")
           q == IF i > 0 THEN SubSeq(p, i + 1, Len(p)) ELSE p
       IN  IF q = <<>> THEN <<"/">> ELSE q

RECURSIVE SplitAt(_, _, _)
\* the components of s between "/" separators
SplitAt(s, acc, cur) ==
  IF s = <<>> THEN Append(acc, cur)
  ELSE IF Head(s) = "/" THEN SplitAt(Tail(s), Append(acc, cur), <<>>)
  ELSE SplitAt(Tail(s), acc, Append(cur, Head(s)))

RECURSIVE CleanComps(_, _, _)
CleanComps(comps, out, rooted) ==
  IF comps = <<>> THEN out
  ELSE LET c == Head(comps) IN
    IF c = <<>> \/ c = <<".">> THEN CleanComps(Tail(comps), out, rooted)
    ELSE IF c = <<".", ".">> THEN
      IF out # <<>> /\ out[Len(out)] # <<".", ".">>
        THEN CleanComps(Tail(comps), SubSeq(out, 1, Len(out) - 1), rooted)
      ELSE IF rooted THEN CleanComps(Tail(comps), out, rooted)
      ELSE CleanComps(Tail(comps), Append(out, c), rooted)
    ELSE CleanComps(Tail(comps), Append(out, c), rooted)

RECURSIVE JoinComps(_)
JoinComps(comps) ==
  IF comps = <<>> THEN <<>>
  ELSE IF Len(comps) = 1 THEN comps[1]
  ELSE comps[1] \o <<"/">> \o JoinComps(Tail(comps))

\* filepath.Clean
Clean(path) ==
  IF path = <<>> THEN <<".">>
  ELSE LET rooted == Head(path) = "/"
           body   == JoinComps(CleanComps(SplitAt(path, <<>>, <<>>), <<>>, rooted))
       IN  IF rooted THEN <<"/">> \o body
           ELSE IF body = <<>> THEN <<".">> ELSE body

\* filepath.Join of two elements
Join(dir, name) ==
  IF name = <<>> THEN Clean(dir) ELSE Clean(dir \o <<"/">> \o name)

\* filepath.Dir of a cleaned path
Dir(path) ==
  LET i == LastIndex(path, "/")
  IN  IF i = 0 THEN <<".">>
      ELSE IF i = 1 THEN <<"/">>
      ELSE SubSeq(path, 1, i - 1)

\* fmt's %d of a clock value
Digits == <<"1", "2", "3", "4", "5", "6", "7", "8", "9">>
FmtInt(n) == <<Digits[n]>>

\* ------------------------------------------------------------------ state
VARIABLES
  Files,   \* webfiles.Files: sequence of FileMeta
  mu,      \* webfiles.mu: 0 when free, else the goroutine holding it
  disk,    \* regular files on disk: cleaned path -> bytes
  index,   \* filedata.json
  now,     \* the clock read by time.Now().UnixNano()
  req,     \* per goroutine: position in its handler and its locals
  resp,    \* the response sent by the last step, NoResp when it sent none
  events,  \* number of environment events so far
  uploads, \* number of uploads accepted so far
  persisted, \* history: the catalog at the last save that succeeded
  saveFailed, \* history: the last write of the index in this run failed
  admitted \* the request the auth middleware passed to a handler in the
           \* last step, NoRequest when the step entered no handler

vars == <<Files, mu, disk, index, now, req, resp, events, uploads, persisted,
          saveFailed, admitted>>

\* type FileMeta
FileMeta(filename, size, path) ==
  [Filename |-> filename, Size |-> size, Path |-> path]

NoMeta == FileMeta(<<>>, 0, <<>>)

\* A goroutine with no request in flight.
Idle == [pc |-> "idle", name |-> <<>>, body |-> "none", meta |-> NoMeta,
         snap |-> <<>>, fileIndex |-> 0]

\* The response of a handler: what it was asked (op, name, body), the
\* record it concerns, its outcome, and the list or bytes it carries.
Respond(op, name, body, meta, status, list, data) ==
  [op |-> op, name |-> name, body |-> body, meta |-> meta,
   status |-> status, list |-> list, data |-> data]

NoResp == Respond("none", <<>>, "none", NoMeta, "none", <<>>, "none")

\* The HTTP status and the "error" text a client receives for an outcome
\* of upload or delete; "err" stands for the text of the Go error.
HttpAnswer(op, status) ==
  IF status = "bad_form" THEN [code |-> 400, error |-> "err"]
  ELSE IF status = "mkdir_failed"
    THEN [code |-> 500, error |-> "Could not create upload directory"]
  ELSE IF status = "invalid_name"
    THEN [code |-> 400, error |-> "Invalid filename"]
  ELSE IF status = "save_failed" THEN [code |-> 500, error |-> "err"]
  ELSE IF status = "bad_escape"
    THEN [code |-> 400, error |-> "Invalid filename"]
  ELSE IF status = "not_found"
    THEN [code |-> 404, error |-> "File not found in metadata"]
  ELSE IF status = "persist_failed" /\ op = "upload"
    THEN [code |-> 500, error |-> "Failed to save metadata"]
  ELSE IF status = "persist_failed"
    THEN [code |-> 500, error |-> "Failed to update metadata"]
  ELSE [code |-> 200, error |-> ""]

\* ------------------------------------------------------------- disk calls
\* os.Stat(path) returns without error
Stat(path) ==
  /\ path # <<>>
  /\ Clean(path) \in DOMAIN disk \/ Clean(path) \in Dirs

\* os.Create(path), as done by c.SaveFile, can succeed
CanCreate(path) ==
  /\ path # <<>>
  /\ Clean(path) \notin Dirs
  /\ Dir(Clean(path)) \in Dirs

WriteDisk(path, body) ==
  [q \in DOMAIN disk \cup {Clean(path)} |->
     IF q = Clean(path) THEN body ELSE disk[q]]

RemoveDisk(path) ==
  [q \in DOMAIN disk \ {Clean(path)} |-> disk[q]]

\* ---------------------------------------------------------------- index
NoIndex      == [state |-> "absent",  files |-> <<>>]
CorruptIndex == [state |-> "corrupt", files |-> <<>>]

\* json.MarshalIndent of {Files}: Path carries the tag json:"-"
Marshal(files) ==
  [state |-> "ok",
   files |-> [i \in 1..Len(files) |->
                [filename |-> files[i].Filename, size |-> files[i].Size]]]

\* json.Unmarshal into a fresh FileStore
Unmarshal(doc) ==
  [i \in 1..Len(doc.files) |->
     FileMeta(doc.files[i].filename, doc.files[i].size, <<>>)]

\* loadMetadata on a fresh catalog
loadMetadata(idx) ==
  IF idx.state = "ok" THEN Unmarshal(idx) ELSE <<>>

\* c.JSON(webfiles.Files): what a client sees of the catalog
ClientList(files) ==
  [i \in 1..Len(files) |->
     [filename |-> files[i].Filename, size |-> files[i].Size]]

\* url.QueryUnescape: a "%" not followed by two hex digits is an error,
\* "+" decodes to a space, the other tokens hold no escape
CanUnescape(raw) == \A i \in 1..Len(raw) : raw[i] # "%"
QueryUnescape(raw) ==
  [i \in 1..Len(raw) |-> IF raw[i] = "+" THEN " " ELSE raw[i]]

\* index of the first record named name, 0 when there is none
RECURSIVE FindFrom(_, _, _)
FindFrom(files, name, i) ==
  IF i > Len(files) THEN 0
  ELSE IF files[i].Filename = name THEN i
  ELSE FindFrom(files, name, i + 1)

FindIndex(files, name) == FindFrom(files, name, 1)

\* removal that moves the last record into the freed position
RemoveAtSwap(files, i) ==
  IF i = Len(files) THEN SubSeq(files, 1, Len(files) - 1)
  ELSE SubSeq(files, 1, i - 1) \o <<files[Len(files)]>>
         \o SubSeq(files, i + 1, Len(files) - 1)

\* append(s[:i], s[i+1:]...) for the 1-based position i
RemoveAt(files, i) ==
  SubSeq(files, 1, i - 1) \o SubSeq(files, i + 1, Len(files))

\* ------------------------------------------------------ auth middleware
\* c.Path() of the requests: the four routes of the file store, the
\* index page, and the paths the middleware lets through
UploadRoute   == <<"/", "upload">>
FilesRoute    == <<"/", "files">>
DownloadRoute == <<"/", "download", "/">>
DeleteRoute   == <<"/", "delete", "/">>
OpenPaths     == { <<"/", "login">>, <<"/", "logout">>,
                   <<"/", "public", "/", "app", ".", "js">> }
GatedPaths    == { UploadRoute, FilesRoute,
                   DownloadRoute \o <<"a", ".", "t">>,
                   DeleteRoute \o <<"a", ".", "t">>,
                   <<"/">> }

\* strings.HasPrefix
HasPrefix(s, prefix) ==
  Len(s) >= Len(prefix) /\ SubSeq(s, 1, Len(prefix)) = prefix

\* c.Cookies("session"): no cookie, a string that is no token, or a token
\* with its signing method, the key it was signed with and whether its exp
\* claim has passed
NoCookie  == [kind |-> "none"]
Malformed == [kind |-> "garbage"]
Tokens ==
  [kind : {"jwt"}, alg : {"HS256", "RS256"}, key : {"jwtSecret", "other"},
   expired : BOOLEAN]
Credentials == {NoCookie, Malformed} \cup Tokens

\* jwt.Parse with the key function of lines 87-92 returns no error and
\* token.Valid is set
ParsesValid(cred) ==
  /\ cred.kind = "jwt"
  /\ cred.alg = "HS256"
  /\ cred.key = "jwtSecret"
  /\ ~cred.expired

\* the middleware with a parser that skips the validation of exp
GateParseOnly(path, cred) ==
  IF \/ path = <<"/", "login">>
     \/ path = <<"/", "logout">>
     \/ HasPrefix(path, <<"/", "public">>)
    THEN "next"
  ELSE IF cred = NoCookie THEN "redirect"
  ELSE IF cred.kind # "jwt" \/ cred.alg # "HS256" \/ cred.key # "jwtSecret"
    THEN "redirect"
  ELSE "next"

\* the middleware of lines 76-101
Gate(path, cred) ==
  IF \/ path = <<"/", "login">>
     \/ path = <<"/", "logout">>
     \/ HasPrefix(path, <<"/", "public">>)
    THEN "next"
  ELSE IF cred = NoCookie THEN "redirect"
  ELSE IF ~ParsesValid(cred) THEN "redirect"
  ELSE "next"

NoRequest == [path |-> <<>>, cred |-> NoCookie]

\* lines 152-155: the router runs a handler of the file store after the
\* middleware called c.Next()
Entered(path) ==
  \E cred \in Credentials :
    /\ Gate(path, cred) = "next"
    /\ admitted' = [path |-> path, cred |-> cred]

\* a step that starts no handler of the file store
Inside == admitted' = NoRequest

\* the requests the middleware answers itself, and those it passes on to
\* the login, logout and static handlers
Redirected ==
  { r \in (GatedPaths \cup OpenPaths) \X Credentials :
      Gate(r[1], r[2]) = "redirect" }
PassedOpen ==
  { r \in OpenPaths \X Credentials : Gate(r[1], r[2]) = "next" }

\* lines 81-98: the middleware answers the redirect to /login; no handler
\* runs
AuthRedirect(p) ==
  /\ req[p].pc = "idle"
  /\ Redirected # {}
  /\ Inside
  /\ resp' = Respond("redirect", <<>>, "none", NoMeta, "redirect", <<>>,
                     "none")
  /\ UNCHANGED <<Files, mu, disk, index, now, req, events, uploads,
                 persisted, saveFailed>>

\* lines 77-79: login, logout and the public assets pass without a
\* credential; their handlers are not handlers of the file store
OpenRequest(p) ==
  /\ req[p].pc = "idle"
  /\ PassedOpen # {}
  /\ Inside
  /\ resp' = Respond("open", <<>>, "none", NoMeta, "ok", <<>>, "none")
  /\ UNCHANGED <<Files, mu, disk, index, now, req, events, uploads,
                 persisted, saveFailed>>

\* ----------------------------------------------------------------- Init
Init ==
  /\ Files = <<>>
  /\ mu = 0
  /\ disk = <<>>
  /\ index = NoIndex
  /\ now = 1
  /\ req = [p \in Procs |-> Idle]
  /\ resp = NoResp
  /\ events = 0
  /\ uploads = 0
  /\ persisted = <<>>
  /\ saveFailed = FALSE
  /\ admitted = NoRequest

\* --------------------------------------------------------------- upload
\* uploadHandler, lines 184-202: the name the upload is stored under and
\* its path, given file.Filename, the outcome of os.Stat and the clock
FinalFilename(originalName, exists, t) ==
  IF exists
    THEN LET dotIndex == LastIndex(originalName, ".")
             name == IF dotIndex # 0
                       THEN SubSeq(originalName, 1, dotIndex - 1)
                       ELSE originalName
             ext  == IF dotIndex # 0
                       THEN SubSeq(originalName, dotIndex, Len(originalName))
                       ELSE <<>>
         IN  name \o <<"_">> \o FmtInt(t) \o ext
    ELSE Base(originalName)

FilePath(originalName, exists, t) ==
  IF exists
    THEN uploadDir \o <<"/">> \o FinalFilename(originalName, exists, t)
    ELSE Join(uploadDir, Base(originalName))

\* the check of line 179
InvalidName(cleanedFilename) ==
  cleanedFilename = <<".">> \/ cleanedFilename = <<"/">>

\* c.FormFile fails: no state is touched
UploadBadForm(p) ==
  /\ req[p].pc = "idle"
  /\ Entered(UploadRoute)
  /\ resp' = Respond("upload", <<>>, "none", NoMeta, "bad_form", <<>>, "none")
  /\ UNCHANGED <<Files, mu, disk, index, now, req, events, uploads,
                 persisted, saveFailed>>

\* os.MkdirAll fails
UploadMkdirFails(p) ==
  /\ req[p].pc = "idle"
  /\ Entered(UploadRoute)
  /\ resp' = Respond("upload", <<>>, "none", NoMeta, "mkdir_failed", <<>>,
                     "none")
  /\ UNCHANGED <<Files, mu, disk, index, now, req, events, uploads,
                 persisted, saveFailed>>

\* lines 176-182: the name is rejected
UploadInvalidName(p) ==
  /\ req[p].pc = "idle"
  /\ Entered(UploadRoute)
  /\ \E raw \in RawNames :
       /\ InvalidName(Base(raw))
       /\ resp' = Respond("upload", raw, "none", NoMeta, "invalid_name", <<>>,
                          "none")
  /\ UNCHANGED <<Files, mu, disk, index, now, req, events, uploads,
                 persisted, saveFailed>>

\* lines 164-202: the name is accepted, os.Stat decides whether it is taken,
\* and a taken name is disambiguated with the clock
UploadCheckUpTo(p, limit) ==
  /\ req[p].pc = "idle"
  /\ Entered(UploadRoute)
  /\ uploads < limit
  /\ uploads' = uploads + 1
  /\ \E raw \in RawNames :
       LET exists == Stat(Join(uploadDir, Base(raw)))
           body   == BodyOf(uploads + 1)
       IN  /\ ~InvalidName(Base(raw))
           /\ now' = IF exists THEN now + 1 ELSE now
           /\ req' = [req EXCEPT ![p] =
                [Idle EXCEPT !.pc = "save", !.name = raw, !.body = body,
                             !.meta = FileMeta(FinalFilename(raw, exists, now),
                                               SizeOf(body),
                                               FilePath(raw, exists, now))]]
  /\ resp' = NoResp
  /\ UNCHANGED <<Files, mu, disk, index, events, persisted, saveFailed>>

UploadCheck(p) == UploadCheckUpTo(p, MaxUploads)

\* line 204, c.SaveFile succeeds
UploadSave(p) ==
  /\ req[p].pc = "save"
  /\ Inside
  /\ CanCreate(req[p].meta.Path)
  /\ disk' = WriteDisk(req[p].meta.Path, req[p].body)
  /\ req' = [req EXCEPT ![p].pc = "append_read"]
  /\ resp' = NoResp
  /\ UNCHANGED <<Files, mu, index, now, events, uploads, persisted, saveFailed>>

\* uploadHandler appending the record before it knows c.SaveFile failed
UploadSaveFailsAfterAppend(p) ==
  /\ req[p].pc = "save"
  /\ Inside
  /\ Files' = Append(Files, req[p].meta)
  /\ req' = [req EXCEPT ![p] = Idle]
  /\ resp' = Respond("upload", req[p].name, req[p].body, req[p].meta,
                     "save_failed", <<>>, "none")
  /\ UNCHANGED <<mu, disk, index, now, events, uploads, persisted,
                 saveFailed>>

\* lines 204-207, c.SaveFile fails: the handler answers 500
UploadSaveFails(p) ==
  /\ req[p].pc = "save"
  /\ Inside
  /\ req' = [req EXCEPT ![p] = Idle]
  /\ resp' = Respond("upload", req[p].name, req[p].body, req[p].meta,
                     "save_failed", <<>>, "none")
  /\ UNCHANGED <<Files, mu, disk, index, now, events, uploads, persisted,
                 saveFailed>>

\* line 217, append(webfiles.Files, meta): the read of the slice.  The
\* statement runs without webfiles.mu, so it is a read and a write that
\* other goroutines can come between.
UploadAppendRead(p) ==
  /\ req[p].pc = "append_read"
  /\ Inside
  /\ req' = [req EXCEPT ![p].pc = "append_write", ![p].snap = Files]
  /\ resp' = NoResp
  /\ UNCHANGED <<Files, mu, disk, index, now, events, uploads, persisted,
                 saveFailed>>

\* line 217: the write of the grown slice
UploadAppendWrite(p) ==
  /\ req[p].pc = "append_write"
  /\ Inside
  /\ Files' = Append(req[p].snap, req[p].meta)
  /\ req' = [req EXCEPT ![p].pc = "persist", ![p].snap = <<>>]
  /\ resp' = NoResp
  /\ UNCHANGED <<mu, disk, index, now, events, uploads, persisted, saveFailed>>

\* saveMetadataUnlocked writing the catalog without its newest record
saveMetadataUnlockedStale(files) ==
  Marshal(SubSeq(files, 1, Len(files) - 1))

\* saveMetadataUnlocked succeeds: the index is overwritten with the
\* catalog it read
saveMetadataUnlocked(files) == Marshal(files)

\* os.WriteFile fails: the file is left as it was (open failed) or cut
\* short (write failed)
FailedWrite == {index, CorruptIndex}

\* lines 218, 355, 333-343: saveMetadata takes webfiles.mu and
\* saveMetadataUnlocked reads the catalog into dataToSave and marshals it
UploadPersistSnapshot(p) ==
  /\ req[p].pc = "persist"
  /\ Inside
  /\ mu = 0
  /\ mu' = p
  /\ req' = [req EXCEPT ![p].pc = "saving", ![p].snap = Files]
  /\ resp' = NoResp
  /\ UNCHANGED <<Files, disk, index, now, events, uploads, persisted,
                 saveFailed>>

\* lines 344-349, 356, 221-223: os.WriteFile writes the marshalled snapshot,
\* the lock is released, answer 200
UploadPersist(p) ==
  /\ req[p].pc = "saving"
  /\ Inside
  /\ mu = p
  /\ index' = saveMetadataUnlocked(req[p].snap)
  /\ persisted' = req[p].snap
  /\ saveFailed' = FALSE
  /\ mu' = 0
  /\ req' = [req EXCEPT ![p] = Idle]
  /\ resp' = Respond("upload", req[p].name, req[p].body, req[p].meta,
                     "uploaded", <<>>, "none")
  /\ UNCHANGED <<Files, disk, now, events, uploads>>

\* lines 344-347, 356, 218-220: os.WriteFile fails, the lock is released,
\* answer 500
UploadPersistFails(p) ==
  /\ req[p].pc = "saving"
  /\ Inside
  /\ mu = p
  /\ events < MaxEvents
  /\ events' = events + 1
  /\ index' \in FailedWrite
  /\ saveFailed' = TRUE
  /\ mu' = 0
  /\ req' = [req EXCEPT ![p] = Idle]
  /\ resp' = Respond("upload", req[p].name, req[p].body, req[p].meta,
                     "persist_failed", <<>>, "none")
  /\ UNCHANGED <<Files, disk, now, uploads, persisted>>

\* ----------------------------------------------------------------- list
\* filesHandler, lines 227-230: take webfiles.mu, answer the catalog,
\* release the lock
filesHandler(p) ==
  /\ req[p].pc = "idle"
  /\ Entered(FilesRoute)
  /\ mu = 0
  /\ resp' = Respond("list", <<>>, "none", NoMeta, "ok", ClientList(Files),
                     "none")
  /\ UNCHANGED <<Files, mu, disk, index, now, req, events, uploads,
                 persisted, saveFailed>>

\* ------------------------------------------------- download and delete
\* :filename parameters a client sends: the names it was shown, a name
\* that may be absent, and one that does not decode
RequestNames ==
  { Files[i].Filename : i \in 1..Len(Files) }
    \cup { <<"a", ".", "t">>, <<"%">> }

\* downloadHandler / deleteHandler: url.QueryUnescape fails, answer 400
BadEscape(p, op, route) ==
  /\ req[p].pc = "idle"
  /\ \E raw \in RequestNames :
       /\ ~CanUnescape(raw)
       /\ Entered(route \o raw)
       /\ resp' = Respond(op, raw, "none", NoMeta, "bad_escape", <<>>, "none")
  /\ UNCHANGED <<Files, mu, disk, index, now, req, events, uploads,
                 persisted, saveFailed>>

DownloadBadEscape(p) == BadEscape(p, "download", DownloadRoute)

DeleteBadEscape(p) == BadEscape(p, "delete", DeleteRoute)

\* downloadHandler, lines 250-259: the record the search stops at
FoundFile(files, name) ==
  IF FindIndex(files, name) = 0 THEN NoMeta
  ELSE files[FindIndex(files, name)]

\* downloadHandler with the 404 of the missing record sent for the missing
\* disk file too
DownloadStatusOneNotFound(files, name) ==
  IF FindIndex(files, name) = 0 THEN "not_found_metadata"
  ELSE IF ~Stat(FoundFile(files, name).Path) THEN "not_found_metadata"
  ELSE "ok"

\* downloadHandler, lines 261-278: what the handler answers
DownloadStatus(files, name) ==
  IF FindIndex(files, name) = 0 THEN "not_found_metadata"
  ELSE IF ~Stat(FoundFile(files, name).Path) THEN "not_found_disk"
  ELSE "ok"

\* the bytes c.Download streams
DownloadData(files, name) ==
  IF DownloadStatus(files, name) = "ok"
    THEN disk[Clean(FoundFile(files, name).Path)]
    ELSE "none"

\* downloadHandler, lines 236-278: decode the name, take webfiles.mu,
\* search, stat, answer, release the lock
downloadHandler(p) ==
  /\ req[p].pc = "idle"
  /\ mu = 0
  /\ \E raw \in RequestNames :
       /\ CanUnescape(raw)
       /\ Entered(DownloadRoute \o raw)
       /\ resp' = Respond("download", QueryUnescape(raw), "none",
                          FoundFile(Files, QueryUnescape(raw)),
                          DownloadStatus(Files, QueryUnescape(raw)), <<>>,
                          DownloadData(Files, QueryUnescape(raw)))
  /\ UNCHANGED <<Files, mu, disk, index, now, req, events, uploads,
                 persisted, saveFailed>>

\* deleteHandler, lines 284-304: decode the name, take webfiles.mu; no
\* record has the name, release the lock, answer 404
DeleteNotFound(p) ==
  /\ req[p].pc = "idle"
  /\ mu = 0
  /\ \E raw \in RequestNames :
       /\ CanUnescape(raw)
       /\ FindIndex(Files, QueryUnescape(raw)) = 0
       /\ Entered(DeleteRoute \o raw)
       /\ resp' = Respond("delete", QueryUnescape(raw), "none", NoMeta,
                          "not_found", <<>>, "none")
  /\ UNCHANGED <<Files, mu, disk, index, now, req, events, uploads,
                 persisted, saveFailed>>

\* deleteHandler, lines 284-311: decode the name, take webfiles.mu; the
\* record is found and os.Remove is called on the path built from the
\* requested name; it removes the file, finds none, or fails and leaves
\* the file
DeleteRemove(p) ==
  /\ req[p].pc = "idle"
  /\ mu = 0
  /\ \E raw \in RequestNames :
       LET name == QueryUnescape(raw) IN
       /\ CanUnescape(raw)
       /\ FindIndex(Files, name) # 0
       /\ Entered(DeleteRoute \o raw)
       /\ \/ /\ disk' = RemoveDisk(Join(uploadDir, name))
             /\ events' = events
          \/ /\ Clean(Join(uploadDir, name)) \in DOMAIN disk
             /\ events < MaxEvents
             /\ disk' = disk
             /\ events' = events + 1
       /\ req' = [req EXCEPT ![p] =
            [Idle EXCEPT !.pc = "delete_commit", !.name = name,
                         !.fileIndex = FindIndex(Files, name)]]
  /\ mu' = p
  /\ resp' = NoResp
  /\ UNCHANGED <<Files, index, now, uploads, persisted, saveFailed>>

\* The process starts: loadMetadata fills a fresh catalog from the index;
\* the requests of the previous run are gone.
ProcessStart ==
  /\ Files' = loadMetadata(index)
  /\ mu' = 0
  /\ req' = [p \in Procs |-> Idle]
  /\ resp' = NoResp
  /\ saveFailed' = FALSE
  /\ Inside
  /\ UNCHANGED <<disk, index, now>>

\* deleteHandler, lines 313-323: the record at fileIndex is removed from
\* the catalog as it is now, the index is saved, unlock, answer the list.
\* When the catalog read again is shorter than fileIndex the slice
\* expression panics: no handler recovers, the process exits and is
\* started again.
DeleteCommit(p) ==
  /\ req[p].pc = "delete_commit"
  /\ mu = p
  /\ IF req[p].fileIndex > Len(Files)
       THEN /\ ProcessStart
            /\ UNCHANGED <<events, uploads, persisted>>
       ELSE /\ Files' = RemoveAt(Files, req[p].fileIndex)
            /\ index' = saveMetadataUnlocked(Files')
            /\ persisted' = Files'
            /\ saveFailed' = FALSE
            /\ Inside
            /\ mu' = 0
            /\ req' = [req EXCEPT ![p] = Idle]
            /\ resp' = Respond("delete", req[p].name, "none",
                               Files[req[p].fileIndex], "ok",
                               ClientList(Files'), "none")
            /\ UNCHANGED <<disk, now, events, uploads>>

\* lines 313-320: the save fails, unlock, answer 500
DeleteCommitFails(p) ==
  /\ req[p].pc = "delete_commit"
  /\ Inside
  /\ mu = p
  /\ req[p].fileIndex <= Len(Files)
  /\ Files' = RemoveAt(Files, req[p].fileIndex)
  /\ events < MaxEvents
  /\ events' = events + 1
  /\ index' \in FailedWrite
  /\ saveFailed' = TRUE
  /\ mu' = 0
  /\ req' = [req EXCEPT ![p] = Idle]
  /\ resp' = Respond("delete", req[p].name, "none", Files[req[p].fileIndex],
                     "persist_failed", <<>>, "none")
  /\ UNCHANGED <<disk, now, uploads, persisted>>

\* ---------------------------------------------------------- environment
\* A file of the upload directory is removed from outside the program.
ExternalRemove ==
  /\ events < MaxEvents
  /\ events' = events + 1
  /\ \E q \in DOMAIN disk :
       /\ Dir(q) = <<"uploads">>
       /\ disk' = [r \in DOMAIN disk \ {q} |-> disk[r]]
  /\ resp' = NoResp
  /\ Inside
  /\ UNCHANGED <<Files, mu, index, now, req, uploads, persisted, saveFailed>>

\* The process is stopped and started again.
Restart ==
  /\ events < MaxEvents
  /\ events' = events + 1
  /\ ProcessStart
  /\ UNCHANGED <<uploads, persisted>>

\* ----------------------------------------------------------------- Next
\* the steps of goroutine p other than the start of an accepted upload
HandlerStep(p) ==
  \/ AuthRedirect(p)
  \/ OpenRequest(p)
  \/ UploadBadForm(p)
  \/ UploadMkdirFails(p)
  \/ UploadInvalidName(p)
  \/ UploadSave(p)
  \/ UploadSaveFails(p)
  \/ UploadAppendRead(p)
  \/ UploadAppendWrite(p)
  \/ UploadPersistSnapshot(p)
  \/ UploadPersist(p)
  \/ UploadPersistFails(p)
  \/ filesHandler(p)
  \/ DownloadBadEscape(p)
  \/ downloadHandler(p)
  \/ DeleteBadEscape(p)
  \/ DeleteNotFound(p)
  \/ DeleteRemove(p)
  \/ DeleteCommit(p)
  \/ DeleteCommitFails(p)

\* one step of goroutine p
Step(p) ==
  \/ UploadCheck(p)
  \/ HandlerStep(p)

Next ==
  \/ \E p \in Procs : Step(p)
  \/ ExternalRemove
  \/ Restart

\* Requests arrive at any time and are served concurrently.
Spec == Init /\ [][Next]_vars

\* One request at a time: a request arrives only after the answer to the
\* one before.
NextSeq ==
  \/ UploadCheckUpTo(1, MoreUploads)
  \/ HandlerStep(1)
  \/ ExternalRemove
  \/ Restart

SpecSeq == Init /\ [][NextSeq]_vars

\* One request at a time and nothing but requests: no file is removed from
\* outside and the process keeps running.
NextRequests ==
  \/ UploadCheckUpTo(1, MoreUploads)
  \/ HandlerStep(1)

SpecRequests == Init /\ [][NextRequests]_vars

\* Concurrent uploads and deletes that are all answered 200: every request
\* is well formed and every write to disk succeeds.
NextNoFault ==
  \E p \in Procs :
    \/ UploadCheckUpTo(p, MoreUploads)
    \/ UploadSave(p)
    \/ UploadAppendRead(p)
    \/ UploadAppendWrite(p)
    \/ UploadPersistSnapshot(p)
    \/ UploadPersist(p)
    \/ DeleteRemove(p)
    \/ DeleteCommit(p)

SpecNoFault == Init /\ [][NextNoFault]_vars

\* Uploads only, concurrent, with the failures of their disk calls.
NextUploads ==
  \E p \in Procs :
    \/ UploadCheck(p)
    \/ UploadSave(p)
    \/ UploadSaveFails(p)
    \/ UploadAppendRead(p)
    \/ UploadAppendWrite(p)
    \/ UploadPersistSnapshot(p)
    \/ UploadPersist(p)
    \/ UploadPersistFails(p)

SpecUploads == Init /\ [][NextUploads]_vars

\* --------------------------------------------------------------- claims
Range(f) == { f[i] : i \in DOMAIN f }

AllIdle == \A p \in Procs : req[p].pc = "idle"

\* the goroutines between the first and the last disk or catalog step of
\* their handler
InOperation == { p \in Procs : req[p].pc # "idle" }

\* a regular file is stored at path
FileAt(path) == path # <<>> /\ Clean(path) \in DOMAIN disk

HasSeparator(s) == \E i \in 1..Len(s) : s[i] = "/"

ValidStoredName(name) ==
  /\ name # <<>>
  /\ name # <<".">>
  /\ name # <<"/">>
  /\ ~HasSeparator(name)

\* the records of the catalog named name, and the first of them
Matching(name) == { i \in 1..Len(Files) : Files[i].Filename = name }

FirstMatch(name) ==
  CHOOSE i \in Matching(name) : \A j \in Matching(name) : i <= j

\* C1: each of upload, list, download and delete is one critical section
\* under the catalog lock, so no two operations are ever both between
\* their first and their last disk or catalog step.
C1_OneCriticalSection == Cardinality(InOperation) <= 1

\* C2: between requests no two records of the catalog have the same
\* filename, whatever uploads and deletes ran and however they interleaved,
\* also when a catalogued file was removed from disk from outside.
C2_UniqueFilenames ==
  AllIdle =>
    \A i, j \in 1..Len(Files) :
      i # j => Files[i].Filename # Files[j].Filename

\* C3: the record of an upload whose file was written is in the catalog
\* and stays there until a delete of that filename: a step that drops a
\* record from the catalog is the commit of a delete of that record's
\* filename (or the start of a new process run).
C3_RecordKept ==
  [][ \A i \in 1..Len(Files) :
        Files[i] \notin Range(Files') =>
          \/ ProcessStart
          \/ \E p \in Procs : /\ req[p].pc = "delete_commit"
                              /\ req'[p].pc = "idle"
                              /\ req[p].name = Files[i].Filename ]_vars

\* C4: a restart (loadMetadata on a fresh catalog) reproduces exactly the
\* catalog as of the last successful persist: same records, same order.
C4_RestartReproduces == [][ Restart => Files' = persisted ]_vars

\* C5: the storage path is persisted, so a download of a listed filename
\* whose bytes are still on disk streams the file, also after a restart.
C5_DownloadFindsFile ==
  ( /\ resp.op = "download"
    /\ \E i \in 1..Len(Files) : Files[i].Filename = resp.name
    /\ FileAt(Join(uploadDir, resp.name)) )
  => resp.status = "ok"

\* C6: two uploads with identical original names, one after the other or
\* concurrently, give two entries that are downloadable independently:
\* when an upload has answered, the file at its record's path holds that
\* upload's own bytes and no other record has its filename.
C6_OwnEntry ==
  (resp.op = "upload" /\ resp.status = "uploaded")
  => /\ FileAt(resp.meta.Path) =>
          disk[Clean(resp.meta.Path)] = resp.body
     /\ \A i, j \in Matching(resp.meta.Filename) : i = j

C8_ListedOnce ==
  (resp.op = "upload" /\ resp.status = "uploaded")
  => Cardinality({ i \in 1..Len(Files) :
                     ClientList(Files)[i] =
                       [filename |-> resp.meta.Filename,
                        size |-> resp.meta.Size] }) = 1

\* C9: after a successful delete of a filename no list shows that filename
\* and a second delete of it, with no upload in between, finds no record.
C9_DeletedIsGone ==
  (resp.op = "delete" /\ resp.status = "ok")
  => \A i \in 1..Len(Files) : Files[i].Filename # resp.name

\* C10: a download answers NotFound(metadata) exactly when no record has
\* the requested name, NotFound(disk) exactly when the first record of
\* that name has no file at its path, and otherwise streams the bytes
\* stored at that record's path.
C10_DownloadOutcome ==
  (resp.op = "download" /\ resp.status # "bad_escape")
  => /\ resp.status \in {"not_found_metadata", "not_found_disk", "ok"}
     /\ resp.status = "not_found_metadata" <=> Matching(resp.name) = {}
     /\ resp.status = "not_found_disk" <=>
          /\ Matching(resp.name) # {}
          /\ ~FileAt(Files[FirstMatch(resp.name)].Path)
     /\ resp.status = "ok" =>
          resp.data = disk[Clean(Files[FirstMatch(resp.name)].Path)]

\* C10 witness: a catalogued file was removed from outside and its
\* download answered NotFound(disk)
C10_Witness ==
  /\ resp.op = "download"
  /\ resp.status = "not_found_disk"
  /\ resp.meta.Path # <<>>

\* ------------------------------------------------- claims C11 to C19
\* an upload has appended (or is about to write) its record and has not
\* finished its saveMetadata
PersistPending == \E p \in Procs : req[p].pc \in {"persist", "saving"}

\* t is s with a record appended at the end
AppendedLast(s, t) ==
  Len(t) = Len(s) + 1 /\ SubSeq(t, 1, Len(s)) = s

\* t is s without one of its records, the others in the order they had
RemovedOne(s, t) ==
  \E i \in 1..Len(s) :
    t = SubSeq(s, 1, i - 1) \o SubSeq(s, i + 1, Len(s))

\* a signed, unexpired session token
ValidCredential(cred) ==
  cred \in Tokens /\ cred.alg = "HS256" /\ cred.key = "jwtSecret"
    /\ ~cred.expired

\* a step in which a goroutine with no request in flight runs the first
\* step of upload, list, download or delete
EntersHandler ==
  \E p \in Procs :
    /\ req[p].pc = "idle"
    /\ \/ req'[p].pc # "idle"
       \/ req' = req /\ resp'.op \in {"upload", "list", "download", "delete"}

C12_RejectedUploadLeavesState ==
  [][ ( \/ resp'.op = "upload" /\ resp'.status \in {"save_failed",
                                                      "invalid_name"}
        \/ \E p \in Procs : req[p].pc = "idle" /\ req'[p].pc = "save" )
      => /\ Files' = Files
         /\ index' = index
         /\ resp'.status \in {"save_failed", "invalid_name"}
              => HttpAnswer("upload", resp'.status).code \in {400, 500} ]_vars

\* C12 witness: c.SaveFile failed for an upload while the catalog and the
\* index held a record
C12_Witness ==
  /\ resp.op = "upload"
  /\ resp.status = "save_failed"
  /\ Len(Files) >= 1
  /\ index.state = "ok"

\* C13: when the index write fails after the disk step succeeded, the
\* answer differs from those of a failed disk write and of a missing
\* record, and the catalog reflects the mutation: the uploaded record is
\* listed, the deleted record is absent.
C13_PersistFailureKeepsMutation ==
  /\ HttpAnswer("upload", "persist_failed")
       \notin { HttpAnswer("upload", "save_failed"),
                HttpAnswer("delete", "not_found") }
  /\ HttpAnswer("delete", "persist_failed")
       \notin { HttpAnswer("upload", "save_failed"),
                HttpAnswer("delete", "not_found") }
  /\ (resp.op = "upload" /\ resp.status = "persist_failed")
       => resp.meta \in Range(Files)
  /\ (resp.op = "delete" /\ resp.status = "persist_failed")
       => resp.meta \notin Range(Files)

\* C14: a delete that found a record of the requested name removes that
\* record from the catalog and writes the index, whether os.Remove removed
\* the file, found none, or failed.
C14_DeleteRemovesWhateverDisk ==
  [][ \A p \in Procs :
        (req[p].pc = "delete_commit" /\ req'[p].pc = "idle" /\ ~Restart)
        => /\ req[p].fileIndex <= Len(Files)
           /\ Files[req[p].fileIndex].Filename = req[p].name
           /\ Len(Files') = Len(Files) - 1
           /\ resp'.status = "ok" => index' = Marshal(Files') ]_vars

\* C15: a successful delete removes exactly one record, one named as
\* requested, leaves every other record as it was, answers the catalog
\* after the removal, and its os.Remove touches no file but the one of the
\* requested name.
C15_DeleteFrame ==
  [][ \A p \in Procs :
        /\ (req[p].pc = "delete_commit" /\ resp'.op = "delete"
              /\ resp'.status = "ok" /\ req'[p].pc = "idle")
           => /\ \E i \in 1..Len(Files) :
                   /\ Files[i].Filename = req[p].name
                   /\ Files' = RemoveAt(Files, i)
              /\ resp'.list = ClientList(Files')
        /\ (req[p].pc = "idle" /\ req'[p].pc = "delete_commit")
           => \A q \in DOMAIN disk :
                q # Join(uploadDir, req'[p].name)
                  => q \in DOMAIN disk' /\ disk'[q] = disk[q] ]_vars

\* C16: with requests served one after the other, a list answers the
\* catalog in its order, an upload puts its record last, a delete takes
\* one record out and keeps the order of the others, and no other step
\* of a handler changes the catalog.
C16_InsertionOrder ==
  [][ /\ resp'.op = "list" => resp'.list = ClientList(Files)
      /\ \/ Restart
         \/ Files' = Files
         \/ /\ AppendedLast(Files, Files')
            /\ \E p \in Procs : req[p].pc = "append_write"
                                 /\ Files'[Len(Files')] = req[p].meta
         \/ /\ RemovedOne(Files, Files')
            /\ resp'.op = "delete" ]_vars

\* C16 witness: the first of three records was deleted and the two others
\* are listed
C16_Witness ==
  /\ resp.op = "delete"
  /\ resp.status = "ok"
  /\ resp.meta.Filename = <<"a", ".", "t">>
  /\ Len(resp.list) = 2
  /\ resp.list[1].filename # resp.list[2].filename

\* C17: a handler of the file store starts only for a request whose
\* session token is signed with the secret and not expired; a request to
\* a path other than login, logout and the public assets without such a
\* token is answered by the redirect, which changes neither catalog,
\* index nor disk.
C17_HandlersBehindGate ==
  [][ /\ EntersHandler
         => admitted' # NoRequest /\ ValidCredential(admitted'.cred)
      /\ admitted' # NoRequest => ValidCredential(admitted'.cred)
      /\ resp'.op = "redirect"
         => Files' = Files /\ index' = index /\ disk' = disk
      /\ \A path \in GatedPaths, cred \in Credentials :
           ~ValidCredential(cred) => <<path, cred>> \in Redirected ]_vars

\* C17 witness: a request was redirected while the store held a file
C17_Witness ==
  /\ resp.op = "redirect"
  /\ Len(Files) >= 1
  /\ DOMAIN disk # {}

\* C18: while a goroutine is inside saveMetadataUnlocked it holds the
\* catalog lock and no step changes the catalog.
C18_SaveUnderLock ==
  [][ \A p \in Procs :
        (req[p].pc = "saving" /\ ~Restart)
        => mu = p /\ Files' = Files ]_vars

\* C19: the lock is held only by a request in progress that took it once,
\* and every request that has started ends with its answer.
C19_EveryRequestAnswered ==
  [][ /\ mu' # 0 => req'[mu'].pc \in {"saving", "delete_commit"}
      /\ \A p \in Procs :
           (req[p].pc # "idle" /\ req'[p].pc = "idle" /\ ~Restart)
           => resp'.op \in {"upload", "delete"} ]_vars

====
